---- MODULE Spec2Model ----
(***************************************************************************)
(* Model of parse_file in src/data/cl/parse_cl.py: a line-by-line scan of  *)
(* one season's text that keeps a current date and appends one record per  *)
(* accepted match-result line.                                             *)
(*                                                                         *)
(* Text representation.  A Python str is a sequence of one-character       *)
(* strings when its characters matter (digit strings, the season, the      *)
(* formatted date).  A line of the text is a sequence of lexical tokens    *)
(* [k |-> kind, s |-> characters]; the two regular expressions are         *)
(* evaluated over these tokens.  Python's None is the empty tuple and a    *)
(* present value x is <<x>>.                                               *)
(***************************************************************************)
EXTENDS Integers, Sequences, FiniteSets, TLC

(***************************************************************************)
(* Bounds of the model.                                                    *)
(***************************************************************************)
MaxLines == 3

(***************************************************************************)
(* Python values and built-ins.                                            *)
(***************************************************************************)
None == <<>>
Some(x) == <<x>>

Digits == <<"0", "1", "2", "3", "4", "5", "6", "7", "8", "9">>

DigitChars == {"0", "1", "2", "3", "4", "5", "6", "7", "8", "9"}

DigitVal(c) == (CHOOSE i \in 1..10 : Digits[i] = c) - 1

IsDigitStr(s) == Len(s) >= 1 /\ \A i \in 1..Len(s) : s[i] \in DigitChars

\* str(n) for a non-negative integer n
RECURSIVE Str(_)
Str(n) == IF n < 10 THEN <<Digits[n + 1]>>
          ELSE Append(Str(n \div 10), Digits[(n % 10) + 1])

\* format(n, "02d") for a non-negative integer n
Pad2(n) == IF n < 10 THEN <<"0">> \o Str(n) ELSE Str(n)

\* the integer a digit string denotes (leading zeros carry no value)
RECURSIVE DigitsValue(_)
DigitsValue(s) ==
    IF s = <<>> THEN 0
    ELSE DigitsValue(SubSeq(s, 1, Len(s) - 1)) * 10 + DigitVal(s[Len(s)])

\* int(s) for a digit string within the limit
IntValue(s) ==
    LET nz == {i \in 1..Len(s) : s[i] # "0"}
    IN  IF nz = {} THEN 0
        ELSE DigitsValue(SubSeq(s, CHOOSE i \in nz : \A j \in nz : i <= j,
                                Len(s)))

\* CPython's limit on the digits int() converts (sys.int_info
\* .default_max_str_digits); 0 is "no limit", which is also how interpreters
\* that predate the limit behave.
DEFAULT_MAX_STR_DIGITS == 4300

IntMaxStrDigitsSettings == {0, DEFAULT_MAX_STR_DIGITS}

\* int(s) raises ValueError under limit `lim`
IntRaises(s, lim) == (lim > 0 /\ Len(s) > lim) \/ ~IsDigitStr(s)

\* season.split('-')[0]
SplitFirst(s) ==
    LET ds == {i \in 1..Len(s) : s[i] = "-"}
    IN  IF ds = {} THEN s
        ELSE SubSeq(s, 1, (CHOOSE i \in ds : \A j \in ds : i <= j) - 1)

\* str.strip() over a token sequence: drop the whitespace tokens at both ends
RECURSIVE Strip(_)
Strip(ts) ==
    IF ts = <<>> THEN ts
    ELSE IF ts[1].k = "ws" THEN Strip(Tail(ts))
    ELSE IF ts[Len(ts)].k = "ws" THEN Strip(SubSeq(ts, 1, Len(ts) - 1))
    ELSE ts

(***************************************************************************)
(* Tokens.                                                                 *)
(***************************************************************************)
WS == [k |-> "ws", s |-> <<" ">>]
W(x) == [k |-> "word", s |-> <<x>>]
N(ds) == [k |-> "num", s |-> ds]
P(x) == [k |-> "sym", s |-> <<x>>]
CC(x) == [k |-> "cc", s |-> <<x>>]
TM(x) == [k |-> "time", s |-> <<x>>]

MONTH_MAP ==
    [m \in {"Jan", "Feb", "Mar", "Apr", "May", "Jun",
            "Jul", "Aug", "Sep", "Oct", "Nov", "Dec"} |->
        CASE m = "Jan" -> <<"0", "1">> [] m = "Feb" -> <<"0", "2">>
          [] m = "Mar" -> <<"0", "3">> [] m = "Apr" -> <<"0", "4">>
          [] m = "May" -> <<"0", "5">> [] m = "Jun" -> <<"0", "6">>
          [] m = "Jul" -> <<"0", "7">> [] m = "Aug" -> <<"0", "8">>
          [] m = "Sep" -> <<"0", "9">> [] m = "Oct" -> <<"1", "0">>
          [] m = "Nov" -> <<"1", "1">> [] m = "Dec" -> <<"1", "2">>]

\* MONTH_MAP.get(month_str)
MonthMapGet(month_str) ==
    IF month_str \in DOMAIN MONTH_MAP THEN Some(MONTH_MAP[month_str]) ELSE None

Weekdays == {"Mon", "Tue", "Wed", "Thu", "Fri", "Sat", "Sun"}

\* words of the shape [A-Z][a-z]{2} that occur in the modelled texts
CapAbbrs == Weekdays \cup DOMAIN MONTH_MAP \cup {"Okt"}

Tok(line, p) == IF p \in 1..Len(line) THEN line[p] ELSE [k |-> "eol", s |-> <<>>]

IsSym(t, x) == t.k = "sym" /\ t.s = <<x>>

Take(s, n) == SubSeq(s, 1, IF Len(s) < n THEN Len(s) ELSE n)

(***************************************************************************)
(* DATE_WITH_YEAR.match(line): None, or the groups (month, day, year) of   *)
(* the match.  The pattern is anchored at the start only, so the day is    *)
(* the first one or two digits of the number after the slash and the year  *)
(* the first four digits of a number that follows whitespace.              *)
(***************************************************************************)
DATE_WITH_YEAR(line) ==
    LET b == IF IsSym(Tok(line, 2), "[") THEN 3 ELSE 2
        wd == Tok(line, b)
        mo == Tok(line, b + 2)
        dd == Tok(line, b + 4)
        yy == Tok(line, b + 6)
    IN  IF /\ Tok(line, 1).k = "ws"
           /\ wd.k = "word" /\ wd.s[1] \in Weekdays
           /\ Tok(line, b + 1).k = "ws"
           /\ mo.k = "word" /\ mo.s[1] \in CapAbbrs
           /\ IsSym(Tok(line, b + 3), "/")
           /\ dd.k = "num"
        THEN Some([month |-> mo.s[1],
                   day   |-> Take(dd.s, 2),
                   year  |-> IF /\ Len(dd.s) <= 2
                                /\ Tok(line, b + 5).k = "ws"
                                /\ yy.k = "num" /\ Len(yy.s) >= 4
                             THEN Some(Take(yy.s, 4)) ELSE None])
        ELSE None

(***************************************************************************)
(* MATCH_PATTERN2.match(line): None, or the groups (home, away, hg, ag).   *)
(* Team groups are lazy: each ends at the first country code from which    *)
(* the rest of the pattern still matches.                                  *)
(***************************************************************************)
SetMin(S) == CHOOSE i \in S : \A j \in S : i <= j

\* positions a >= from where an away group can end: country code, then
\* whitespace, the score, and then whitespace or the end of the line
AwayEnds(line, from) ==
    {a \in from..Len(line) :
        /\ line[a].k = "cc"
        /\ Tok(line, a + 1).k = "ws"
        /\ Tok(line, a + 2).k = "num"
        /\ IsSym(Tok(line, a + 3), "-")
        /\ Tok(line, a + 4).k = "num"
        /\ Tok(line, a + 5).k \in {"ws", "eol"}}

\* positions h >= from where a home group can end: country code, then the
\* separator v between whitespace, and an away group after it
HomeEnds(line, from) ==
    {h \in from..Len(line) :
        /\ line[h].k = "cc"
        /\ Tok(line, h + 1).k = "ws"
        /\ Tok(line, h + 2) = W("v")
        /\ Tok(line, h + 3).k = "ws"
        /\ AwayEnds(line, h + 4) # {}}

MatchFrom(line, start) ==
    IF HomeEnds(line, start) = {} THEN None
    ELSE LET h == SetMin(HomeEnds(line, start))
             a == SetMin(AwayEnds(line, h + 4))
         IN  Some([home |-> SubSeq(line, start, h),
                   away |-> SubSeq(line, h + 4, a),
                   hg   |-> line[a + 2].s,
                   ag   |-> line[a + 4].s])

MATCH_PATTERN2(line) ==
    IF Tok(line, 1).k # "ws" THEN None
    ELSE IF /\ Tok(line, 2).k = "time" /\ Tok(line, 3).k = "ws"
            /\ MatchFrom(line, 4) # None
         THEN MatchFrom(line, 4)
         ELSE MatchFrom(line, 2)

(***************************************************************************)
(* The date resolver and the record builder of parse_file.                 *)
(***************************************************************************)
\* truth value of an optional str: None and "" are false
Truthy(opt) == opt # None /\ opt[1] # <<>>

\* variant: the boundary of the code's comment (Aug-Dec) instead of July
ResolveYearFromAugust(explicit_year, month_num, by) ==
    IF Truthy(explicit_year) THEN IntValue(explicit_year[1])
    ELSE IF IntValue(month_num) >= 8 THEN by ELSE by + 1

\* current_year after a recognized header
ResolveYear(explicit_year, month_num, by) ==
    IF Truthy(explicit_year) THEN IntValue(explicit_year[1])
    ELSE IF IntValue(month_num) >= 7 THEN by ELSE by + 1

\* f"{current_year}-{month_num}-{day:02d}"
FormatDate(year, month_num, day) ==
    Str(year) \o <<"-">> \o month_num \o <<"-">> \o Pad2(day)

\* variant: the guard without the date test
AcceptsWithoutDate(m, cur) == m # None

\* the guard of the record builder: `if m and current_date`
Accepts(m, cur) == m # None /\ Truthy(cur)

\* the dict appended for an accepted match line
MatchRecord(s, cur, m) ==
    [season     |-> s,
     date       |-> cur,
     home_team  |-> Strip(m.home),
     away_team  |-> Strip(m.away),
     home_goals |-> IntValue(m.hg),
     away_goals |-> IntValue(m.ag)]

(***************************************************************************)
(* Inputs: the seasons and the lines of the modelled texts.                *)
(***************************************************************************)
Seasons == {<<"2", "0", "2", "4", "-", "2", "5">>,
            <<"2", "0", "1", "9", "-", "2", "0">>}

\* The lines the modelled texts are built from, each with its tokens.
HdrSepYear == "  Tue Sep/17 2024"
HdrMar == "  Wed Mar/5"
HdrJul == "  [Sat Jul/1]"
HdrFeb31 == "  Tue Feb/31"
HdrJanYear == "  Thu Jan/9 0999"
MatchReal == "  18.45  Real Madrid (ESP) v Borussia Dortmund (GER)  3-1 (1-0)"
\* a date header that is also a match result
HdrAndMatch == "  Tue Sep/18 (ESP) v B (GER) 2-2"
\* the same with a month MONTH_MAP does not know
OktAndMatch == "  Tue Okt/18 (ESP) v B (GER) 2-2"
\* a result without country codes
NoCodes == "  Real Madrid v Dortmund 3-1"
Blank == ""
\* a result whose home score has one digit more than the int() limit allows
MatchLong == "  A (ESP) v B (GER) 0{4301}-1"

\* a second result, for the texts that main merges
MatchAjax == "  Ajax (NED) v Porto (POR) 0-2"

LineSamples == {HdrSepYear, HdrMar, HdrJul, HdrFeb31, HdrJanYear, MatchReal,
                HdrAndMatch, OktAndMatch, NoCodes, Blank, MatchLong}

HdrAndMatchTokens ==
    <<WS, W("Tue"), WS, W("Sep"), P("/"), N(<<"1", "8">>), WS, CC("(ESP)"), WS,
      W("v"), WS, W("B"), WS, CC("(GER)"), WS, N(<<"2">>), P("-"), N(<<"2">>)>>

MatchLongTokens ==
    <<WS, W("A"), WS, CC("(ESP)"), WS, W("v"), WS, W("B"), WS, CC("(GER)"), WS,
      N(SubSeq([i \in 1..(DEFAULT_MAX_STR_DIGITS + 1) |-> "0"], 1,
               DEFAULT_MAX_STR_DIGITS + 1)), P("-"), N(<<"1">>)>>

\* the tokens of a line
Lex(l) ==
    CASE l = HdrSepYear ->
            <<WS, W("Tue"), WS, W("Sep"), P("/"), N(<<"1", "7">>), WS,
              N(<<"2", "0", "2", "4">>)>>
      [] l = HdrMar ->
            <<WS, W("Wed"), WS, W("Mar"), P("/"), N(<<"5">>)>>
      [] l = HdrJul ->
            <<WS, P("["), W("Sat"), WS, W("Jul"), P("/"), N(<<"1">>), P("]")>>
      [] l = HdrFeb31 ->
            <<WS, W("Tue"), WS, W("Feb"), P("/"), N(<<"3", "1">>)>>
      [] l = HdrJanYear ->
            <<WS, W("Thu"), WS, W("Jan"), P("/"), N(<<"9">>), WS,
              N(<<"0", "9", "9", "9">>)>>
      [] l = MatchReal ->
            <<WS, TM("18.45"), WS, W("Real"), WS, W("Madrid"), WS, CC("(ESP)"),
              WS, W("v"), WS, W("Borussia"), WS, W("Dortmund"), WS,
              CC("(GER)"), WS, N(<<"3">>), P("-"), N(<<"1">>), WS, W("(1-0)")>>
      [] l = HdrAndMatch -> HdrAndMatchTokens
      [] l = OktAndMatch -> [HdrAndMatchTokens EXCEPT ![4] = W("Okt")]
      [] l = NoCodes ->
            <<WS, W("Real"), WS, W("Madrid"), WS, W("v"), WS, W("Dortmund"),
              WS, N(<<"3">>), P("-"), N(<<"1">>)>>
      [] l = Blank -> <<>>
      [] l = MatchLong -> MatchLongTokens
      [] l = MatchAjax ->
            <<WS, W("Ajax"), WS, CC("(NED)"), WS, W("v"), WS, W("Porto"), WS,
              CC("(POR)"), WS, N(<<"0">>), P("-"), N(<<"2">>)>>

RECURSIVE Texts(_)
Texts(n) == IF n = 0 THEN {<<>>}
            ELSE Texts(n - 1) \cup
                 {Append(t, l) : t \in {u \in Texts(n - 1) : Len(u) = n - 1},
                                 l \in LineSamples}

(***************************************************************************)
(* State of one call parse_file(season, text).                             *)
(***************************************************************************)
VARIABLES
    season,              \* the season argument
    lines,               \* text.split('\n')
    int_max_str_digits,  \* the interpreter's int() digit limit
    base_year,           \* int(season.split('-')[0])
    idx,                 \* number of lines the loop has consumed
    current_date,        \* None or the formatted date
    current_year,        \* None or the year of the last recognized header
    matches,             \* the list of records
    origin,              \* history: origin[k] is the line number of matches[k]
    pc                   \* "loop", "done" (returned) or "raised"

parseVars == <<season, lines, int_max_str_digits, base_year, idx, current_date,
               current_year, matches, origin, pc>>

(***************************************************************************)
(* State of the callers of parse_file and of the fetcher of                *)
(* src/fetch_f1_data.py.  Each specification below runs one of them and    *)
(* leaves the variables of the others at their idle values.                *)
(***************************************************************************)
VARIABLES
    calls,        \* history: the parse_file calls that have finished
    todo,         \* main: the seasons of sorted(URLS.items()) still to do
    all_matches,  \* main: the merged list of records
    all_src,      \* history: all_src[k] is <<season, line number>> of
                  \* all_matches[k]
    main_pc,      \* main: "idle", "next", "parse", "written" or "raised"
    fn,           \* the fetcher entry point that was called
    years,        \* fetch_race_results/fetch_qualifying: the years argument
    yi,           \* number of years the loop has finished
    all_rows,     \* the list of rows
    retries,      \* fetch_json: the retries argument
    attempt,      \* fetch_json: the loop variable
    sleeps,       \* history: the waits of the current fetch_json call
    log,          \* history: the outcomes of its requests
    data,         \* the value fetch_json returned
    year_data,    \* history: what fetch_json returned for each finished year
    f_pc          \* the fetcher's position

callVars == <<calls>>

mainVars == <<todo, all_matches, all_src, main_pc>>

fetchVars == <<fn, years, yi, all_rows, retries, attempt, sleeps, log, data,
               year_data, f_pc>>

otherVars == <<callVars, mainVars, fetchVars>>

vars == <<parseVars, otherVars>>

CallsIdle == calls = <<>>

MainIdle ==
    /\ todo = <<>>
    /\ all_matches = <<>>
    /\ all_src = <<>>
    /\ main_pc = "idle"

FetchIdle ==
    /\ fn = "idle"
    /\ years = <<>>
    /\ yi = 0
    /\ all_rows = <<>>
    /\ retries = 0
    /\ attempt = 0
    /\ sleeps = <<>>
    /\ log = <<>>
    /\ data = None
    /\ year_data = <<>>
    /\ f_pc = "idle"

Init ==
    /\ season \in Seasons
    /\ lines \in Texts(MaxLines)
    /\ int_max_str_digits \in IntMaxStrDigitsSettings
    /\ base_year = IntValue(SplitFirst(season))
    /\ idx = 0
    /\ current_date = None
    /\ current_year = None
    /\ matches = <<>>
    /\ origin = <<>>
    /\ pc = "loop"
    /\ CallsIdle
    /\ MainIdle
    /\ FetchIdle

line == Lex(lines[idx + 1])

InLoop == pc = "loop" /\ idx < Len(lines)

\* variant: without the `continue` of line 93, a header goes on to the match
\* check under its own date
DateHeaderFallsThrough ==
    /\ InLoop
    /\ DATE_WITH_YEAR(line) # None
    /\ LET g == DATE_WITH_YEAR(line)[1]
           month_num == MonthMapGet(g.month)
           year == ResolveYear(g.year, month_num[1], base_year)
           date == Some(FormatDate(year, month_num[1], IntValue(g.day)))
           m == MATCH_PATTERN2(line)
       IN  /\ month_num # None
           /\ current_year' = Some(year)
           /\ current_date' = date
           /\ IF m # None
              THEN /\ matches' = Append(matches, MatchRecord(season, date, m[1]))
                   /\ origin' = Append(origin, idx + 1)
              ELSE UNCHANGED <<matches, origin>>
    /\ idx' = idx + 1
    /\ UNCHANGED <<season, lines, int_max_str_digits, base_year, pc>>
    /\ UNCHANGED otherVars

\* variant: a header sets the date only while none is active
DateHeaderKeepsFirst ==
    /\ InLoop
    /\ DATE_WITH_YEAR(line) # None
    /\ LET g == DATE_WITH_YEAR(line)[1]
           month_num == MonthMapGet(g.month)
           year == ResolveYear(g.year, month_num[1], base_year)
       IN  /\ month_num # None
           /\ current_year' = Some(year)
           /\ current_date' =
                 IF current_date = None
                 THEN Some(FormatDate(year, month_num[1], IntValue(g.day)))
                 ELSE current_date
    /\ idx' = idx + 1
    /\ UNCHANGED <<season, lines, int_max_str_digits, base_year, matches,
                   origin, pc>>
    /\ UNCHANGED otherVars

\* variant: a year, once known, is kept for the later headers
DateHeaderKeepsYear ==
    /\ InLoop
    /\ DATE_WITH_YEAR(line) # None
    /\ LET g == DATE_WITH_YEAR(line)[1]
           month_num == MonthMapGet(g.month)
           year == IF current_year # None THEN current_year[1]
                   ELSE ResolveYear(g.year, month_num[1], base_year)
       IN  /\ month_num # None
           /\ current_year' = Some(year)
           /\ current_date' =
                 Some(FormatDate(year, month_num[1], IntValue(g.day)))
    /\ idx' = idx + 1
    /\ UNCHANGED <<season, lines, int_max_str_digits, base_year, matches,
                   origin, pc>>
    /\ UNCHANGED otherVars

\* lines 72-93: a header with a known month sets the year and the date
DateHeaderLine ==
    /\ InLoop
    /\ DATE_WITH_YEAR(line) # None
    /\ LET g == DATE_WITH_YEAR(line)[1]
           month_num == MonthMapGet(g.month)
           year == ResolveYear(g.year, month_num[1], base_year)
       IN  /\ month_num # None
           /\ current_year' = Some(year)
           /\ current_date' =
                 Some(FormatDate(year, month_num[1], IntValue(g.day)))
    /\ idx' = idx + 1
    /\ UNCHANGED <<season, lines, int_max_str_digits, base_year, matches,
                   origin, pc>>
    /\ UNCHANGED otherVars

\* variant: a header with an unknown month clears the date
UnknownMonthClearsDate ==
    /\ InLoop
    /\ DATE_WITH_YEAR(line) # None
    /\ MonthMapGet(DATE_WITH_YEAR(line)[1].month) = None
    /\ current_date' = None
    /\ idx' = idx + 1
    /\ UNCHANGED <<season, lines, int_max_str_digits, base_year, current_year,
                   matches, origin, pc>>
    /\ UNCHANGED otherVars

\* variant: without the `continue`, the line goes on to the match check
UnknownMonthFallsThrough ==
    /\ InLoop
    /\ DATE_WITH_YEAR(line) # None
    /\ MonthMapGet(DATE_WITH_YEAR(line)[1].month) = None
    /\ IF Accepts(MATCH_PATTERN2(line), current_date)
       THEN /\ matches' = Append(matches,
                    MatchRecord(season, current_date, MATCH_PATTERN2(line)[1]))
            /\ origin' = Append(origin, idx + 1)
       ELSE UNCHANGED <<matches, origin>>
    /\ idx' = idx + 1
    /\ UNCHANGED <<season, lines, int_max_str_digits, base_year, current_date,
                   current_year, pc>>
    /\ UNCHANGED otherVars

\* lines 78-80: a header whose month MONTH_MAP does not know is skipped
UnknownMonthLine ==
    /\ InLoop
    /\ DATE_WITH_YEAR(line) # None
    /\ MonthMapGet(DATE_WITH_YEAR(line)[1].month) = None
    /\ idx' = idx + 1
    /\ UNCHANGED <<season, lines, int_max_str_digits, base_year, current_date,
                   current_year, matches, origin, pc>>
    /\ UNCHANGED otherVars

\* variant: the record is put in front of the list
MatchLinePrepends ==
    /\ InLoop
    /\ DATE_WITH_YEAR(line) = None
    /\ Accepts(MATCH_PATTERN2(line), current_date)
    /\ LET m == MATCH_PATTERN2(line)[1]
       IN  /\ ~IntRaises(m.hg, int_max_str_digits)
           /\ ~IntRaises(m.ag, int_max_str_digits)
           /\ matches' = <<MatchRecord(season, current_date, m)>> \o matches
    /\ origin' = <<idx + 1>> \o origin
    /\ idx' = idx + 1
    /\ UNCHANGED <<season, lines, int_max_str_digits, base_year, current_date,
                   current_year, pc>>
    /\ UNCHANGED otherVars

\* variant: an accepted match line uses the date up
MatchLineClearsDate ==
    /\ InLoop
    /\ DATE_WITH_YEAR(line) = None
    /\ Accepts(MATCH_PATTERN2(line), current_date)
    /\ LET m == MATCH_PATTERN2(line)[1]
       IN  /\ ~IntRaises(m.hg, int_max_str_digits)
           /\ ~IntRaises(m.ag, int_max_str_digits)
           /\ matches' = Append(matches, MatchRecord(season, current_date, m))
    /\ origin' = Append(origin, idx + 1)
    /\ idx' = idx + 1
    /\ current_date' = None
    /\ UNCHANGED <<season, lines, int_max_str_digits, base_year,
                   current_year, pc>>
    /\ UNCHANGED otherVars

\* lines 96-110: an accepted match line appends one record
MatchLine ==
    /\ InLoop
    /\ DATE_WITH_YEAR(line) = None
    /\ Accepts(MATCH_PATTERN2(line), current_date)
    /\ LET m == MATCH_PATTERN2(line)[1]
       IN  /\ ~IntRaises(m.hg, int_max_str_digits)
           /\ ~IntRaises(m.ag, int_max_str_digits)
           /\ matches' = Append(matches, MatchRecord(season, current_date, m))
    /\ origin' = Append(origin, idx + 1)
    /\ idx' = idx + 1
    /\ UNCHANGED <<season, lines, int_max_str_digits, base_year, current_date,
                   current_year, pc>>
    /\ UNCHANGED otherVars

\* lines 100-101: int() of a goal count raises ValueError, which parse_file
\* does not catch
MatchLineRaises ==
    /\ InLoop
    /\ DATE_WITH_YEAR(line) = None
    /\ Accepts(MATCH_PATTERN2(line), current_date)
    /\ LET m == MATCH_PATTERN2(line)[1]
       IN  \/ IntRaises(m.hg, int_max_str_digits)
           \/ IntRaises(m.ag, int_max_str_digits)
    /\ pc' = "raised"
    /\ UNCHANGED <<season, lines, int_max_str_digits, base_year, idx,
                   current_date, current_year, matches, origin>>
    /\ UNCHANGED otherVars

\* line 97 false: neither a header nor an accepted match line
OtherLine ==
    /\ InLoop
    /\ DATE_WITH_YEAR(line) = None
    /\ ~Accepts(MATCH_PATTERN2(line), current_date)
    /\ idx' = idx + 1
    /\ UNCHANGED <<season, lines, int_max_str_digits, base_year, current_date,
                   current_year, matches, origin, pc>>
    /\ UNCHANGED otherVars

\* line 112: the loop is exhausted and the list is returned
Return ==
    /\ pc = "loop"
    /\ idx = Len(lines)
    /\ pc' = "done"
    /\ UNCHANGED <<season, lines, int_max_str_digits, base_year, idx,
                   current_date, current_year, matches, origin>>
    /\ UNCHANGED otherVars

Next ==
    \/ DateHeaderLine
    \/ UnknownMonthLine
    \/ MatchLine
    \/ MatchLineRaises
    \/ OtherLine
    \/ Return

Spec == Init /\ [][Next]_vars

(***************************************************************************)
(* Vocabulary of the properties.                                           *)
(***************************************************************************)
KnownMonths == {"Jan", "Feb", "Mar", "Apr", "May", "Jun",
                "Jul", "Aug", "Sep", "Oct", "Nov", "Dec"}

\* the header groups of text line k
Groups(k) == DATE_WITH_YEAR(Lex(lines[k]))[1]

\* line k matches the date-header pattern
IsHeaderShaped(k) == DATE_WITH_YEAR(Lex(lines[k])) # None

\* line k is a recognized date header: the pattern matches, the month is known
IsHeader(k) == IsHeaderShaped(k) /\ Groups(k).month \in KnownMonths

\* line k is a match-result line: not header-shaped, the result pattern matches
IsMatchLine(k) == ~IsHeaderShaped(k) /\ MATCH_PATTERN2(Lex(lines[k])) # None

\* the recognized headers above line k
HeadersBefore(k) == {h \in 1..(k - 1) : IsHeader(h)}

SetMax(S) == CHOOSE i \in S : \A j \in S : j <= i

\* the date string header line h resolves to in this season
DateOfHeader(h) ==
    LET g == Groups(h)
    IN  FormatDate(ResolveYear(g.year, MONTH_MAP[g.month], base_year),
                   MONTH_MAP[g.month], IntValue(g.day))

\* (year, month, day) of a date string y-m-d
DateKey(d) ==
    LET dashes == {i \in 1..Len(d) : d[i] = "-"}
        a == SetMin(dashes)
        b == SetMax(dashes)
    IN  <<IntValue(SubSeq(d, 1, a - 1)), IntValue(SubSeq(d, a + 1, b - 1)),
          IntValue(SubSeq(d, b + 1, Len(d)))>>

\* calendar order of two date strings
DateLess(d, e) ==
    LET x == DateKey(d)
        y == DateKey(e)
    IN  \/ x[1] < y[1]
        \/ x[1] = y[1] /\ x[2] < y[2]
        \/ x[1] = y[1] /\ x[2] = y[2] /\ x[3] < y[3]

DateLeq(d, e) == d = e \/ DateLess(d, e)

\* the line the loop consumed last
Consumed == idx >= 1 /\ pc # "raised"

(***************************************************************************)
(* C1: no record comes from a match line above the first recognized date   *)
(* header, and every record carries a non-null date that a recognized      *)
(* header above the record's line resolved to.                             *)
(***************************************************************************)
C1_DateFromEarlierHeader ==
    \A k \in 1..Len(matches) :
        /\ matches[k].date # None
        /\ \E h \in HeadersBefore(origin[k]) :
              matches[k].date = Some(DateOfHeader(h))

\* a finished parse that skipped a match line above the first header and
\* built a record from one below it
C1_Witness ==
    /\ pc = "done"
    /\ Len(matches) = 1
    /\ \E k \in 1..Len(lines) : IsMatchLine(k) /\ HeadersBefore(k) = {}

(***************************************************************************)
(* C2: a recognized header without a year resolves to base_year for the    *)
(* months 7..12 and to base_year + 1 for the months 1..6; a header with a  *)
(* four-digit year resolves to that year.                                  *)
(***************************************************************************)
MonthNumber(m) ==
    CASE m = "Jan" -> 1 [] m = "Feb" -> 2 [] m = "Mar" -> 3 [] m = "Apr" -> 4
      [] m = "May" -> 5 [] m = "Jun" -> 6 [] m = "Jul" -> 7 [] m = "Aug" -> 8
      [] m = "Sep" -> 9 [] m = "Oct" -> 10 [] m = "Nov" -> 11 [] m = "Dec" -> 12

HeadersAfter(k) == {h \in (k + 1)..Len(lines) : IsHeader(h)}

RecordDate(k) == matches[k].date[1]

DatesNonDecreasing ==
    \A j, k \in 1..Len(matches) :
        j < k => DateLeq(RecordDate(j), RecordDate(k))

AtOrAfterPrecedingHeader ==
    \A k \in 1..Len(matches) :
        /\ HeadersBefore(origin[k]) # {}
        /\ DateLeq(DateOfHeader(SetMax(HeadersBefore(origin[k]))), RecordDate(k))

BeforeNextHeader ==
    \A k \in 1..Len(matches) :
        HeadersAfter(origin[k]) # {} =>
            DateLess(RecordDate(k), DateOfHeader(SetMin(HeadersAfter(origin[k]))))

C3_MonotoneDates ==
    pc = "done" =>
        DatesNonDecreasing /\ AtOrAfterPrecedingHeader /\ BeforeNextHeader

\* the recognized headers of the text carry strictly increasing dates
HeadersIncreasing ==
    \A g, h \in 1..Len(lines) :
        (IsHeader(g) /\ IsHeader(h) /\ g < h)
            => DateLess(DateOfHeader(g), DateOfHeader(h))

\* C3 as amended: each record's date is >= the date of the nearest
\* recognized header above it; the dates are non-decreasing and < the date
\* of the next header whenever the header dates of the text are themselves
\* strictly increasing in line order.
C3_MonotoneWhenHeadersAre ==
    pc = "done" =>
        /\ AtOrAfterPrecedingHeader
        /\ HeadersIncreasing => (DatesNonDecreasing /\ BeforeNextHeader)

\* a finished parse of header, match line, later header
C3_Witness ==
    /\ pc = "done"
    /\ HeadersIncreasing
    /\ Len(matches) = 1
    /\ HeadersAfter(origin[1]) # {}

(***************************************************************************)
(* C4: every record's date is a valid calendar date: a month in 1..12 and  *)
(* a day that exists in that month of that year.                           *)
(***************************************************************************)
IsLeapYear(y) == (y % 4 = 0 /\ y % 100 # 0) \/ y % 400 = 0

DaysInMonth(y, m) ==
    IF m = 2 THEN (IF IsLeapYear(y) THEN 29 ELSE 28)
    ELSE IF m \in {4, 6, 9, 11} THEN 30 ELSE 31

IsCalendarDate(d) ==
    LET x == DateKey(d)
    IN  x[2] \in 1..12 /\ x[3] \in 1..DaysInMonth(x[1], x[2])

C4_ValidCalendarDates ==
    \A k \in 1..Len(matches) : IsCalendarDate(RecordDate(k))

(***************************************************************************)
(* C5: within one parse current_date starts as None and, once set, is      *)
(* never None again.                                                       *)
(***************************************************************************)
C5_DateStaysActive ==
    [][/\ idx = 0 => current_date = None
       /\ current_date # None => current_date' # None]_vars

\* a date was set and every kind of later line has been consumed after it
C5_Witness ==
    /\ pc = "done"
    /\ Len(lines) = 3
    /\ IsHeader(1)
    /\ ~IsHeaderShaped(2)
    /\ IsHeaderShaped(3) /\ ~IsHeader(3)
    /\ current_date # None

(***************************************************************************)
(* C6: parse_file raises no exception, whatever the lines of the text are. *)
(***************************************************************************)
C6_NeverRaises == pc # "raised"

(***************************************************************************)
(* C7: a line that matches the date-header pattern with a month that is    *)
(* not one of the twelve known abbreviations appends no record and leaves  *)
(* current_date as it was.                                                 *)
(***************************************************************************)
C7_UnknownMonthIsSkipped ==
    [][(InLoop /\ IsHeaderShaped(idx + 1) /\ ~IsHeader(idx + 1))
          => (matches' = matches /\ current_date' = current_date
              /\ idx' = idx + 1)]_vars

\* an unknown-month header that is also shaped like a result was consumed
\* while a date was active, and one while none was
C7_Witness ==
    /\ idx = 3
    /\ lines[1] = OktAndMatch
    /\ IsHeader(2)
    /\ lines[3] = OktAndMatch
    /\ current_date = Some(DateOfHeader(2))
    /\ matches = <<>>

(***************************************************************************)
(* C8: a match-result line, accepted or not, leaves current_date and       *)
(* base_year unchanged; current_date changes only on a recognized header.  *)
(***************************************************************************)
C8_MatchLineKeepsContext ==
    [][/\ (InLoop /\ IsMatchLine(idx + 1))
             => (current_date' = current_date /\ base_year' = base_year)
       /\ current_date' # current_date => (InLoop /\ IsHeader(idx + 1))]_vars

\* a match line was dropped before the header and one accepted after it
C8_Witness ==
    /\ idx = 3
    /\ IsMatchLine(1)
    /\ IsHeader(2)
    /\ IsMatchLine(3)
    /\ Len(matches) = 1
    /\ current_date = Some(DateOfHeader(2))

(***************************************************************************)
(* C9: every recognized header overwrites current_date, so each record's   *)
(* date is the date of the nearest recognized header above its line.       *)
(***************************************************************************)
C9_DateOfMostRecentHeader ==
    /\ (Consumed /\ IsHeader(idx)) => current_date = Some(DateOfHeader(idx))
    /\ \A k \in 1..Len(matches) :
          matches[k].date = Some(DateOfHeader(SetMax(HeadersBefore(origin[k]))))

\* a record built below two headers that resolve to different dates
C9_Witness ==
    /\ Len(matches) = 1
    /\ origin[1] = 3
    /\ IsHeader(1)
    /\ IsHeader(2)
    /\ DateOfHeader(1) # DateOfHeader(2)

(***************************************************************************)
(* C10: a match-result line consumed while a date is active appends        *)
(* exactly one record: the season argument, the current date, the trimmed  *)
(* team fields and the two integers of the score.                          *)
(***************************************************************************)
C10_OneRecordPerMatchLine ==
    [][(InLoop /\ IsMatchLine(idx + 1) /\ current_date # None) =>
          LET m == MATCH_PATTERN2(line)[1]
          IN  /\ Len(matches') = Len(matches) + 1
              /\ SubSeq(matches', 1, Len(matches)) = matches
              /\ matches'[Len(matches')] =
                    [season     |-> season,
                     date       |-> current_date,
                     home_team  |-> Strip(m.home),
                     away_team  |-> Strip(m.away),
                     home_goals |-> IntValue(m.hg),
                     away_goals |-> IntValue(m.ag)]]_vars

(***************************************************************************)
(* C11: the records of one parse are in the order of their source lines.   *)
(***************************************************************************)
\* the record a match line k yields under the date d
RecordOfLine(k, d) ==
    LET m == MATCH_PATTERN2(Lex(lines[k]))[1]
    IN  [season |-> season, date |-> d, home_team |-> Strip(m.home),
         away_team |-> Strip(m.away), home_goals |-> IntValue(m.hg),
         away_goals |-> IntValue(m.ag)]

C11_RecordsInLineOrder ==
    /\ Len(origin) = Len(matches)
    /\ \A k \in 1..Len(matches) :
          /\ origin[k] \in 1..idx
          /\ IsMatchLine(origin[k])
          /\ matches[k] = RecordOfLine(origin[k], matches[k].date)
    /\ \A j, k \in 1..Len(matches) : j < k => origin[j] < origin[k]

\* two different records, built from two different match lines
C11_Witness ==
    /\ pc = "done"
    /\ Len(matches) = 2
    /\ lines[origin[1]] # lines[origin[2]]
    /\ matches[1].home_team # matches[2].home_team

(***************************************************************************)
(* C14: a recognized header resolves to a date written YYYY-MM-DD, four    *)
(* digits, two digits, two digits; "  Wed Mar/5" in a season with          *)
(* base_year 2024 resolves to 2025-03-05.                                  *)
(***************************************************************************)
IsIsoShaped(d) ==
    /\ Len(d) = 10
    /\ d[5] = "-" /\ d[8] = "-"
    /\ \A i \in {1, 2, 3, 4, 6, 7, 9, 10} : d[i] \in DigitChars

C14_IsoFormat ==
    (Consumed /\ IsHeader(idx)) =>
        /\ IsIsoShaped(current_date[1])
        /\ (lines[idx] = HdrMar /\ base_year = 2024) =>
              current_date =
                 Some(<<"2", "0", "2", "5", "-", "0", "3", "-", "0", "5">>)

(***************************************************************************)
(* C15: the year of a header without a year is a function of the header's  *)
(* month and base_year alone, whatever year and date the earlier lines     *)
(* left behind.                                                            *)
(***************************************************************************)
InferredYear(m, by) == IF MonthNumber(m) >= 7 THEN by ELSE by + 1

C15_YearReInferredPerHeader ==
    [][(InLoop /\ IsHeader(idx + 1) /\ Groups(idx + 1).year = None) =>
          LET y == InferredYear(Groups(idx + 1).month, base_year)
          IN  /\ current_year' = Some(y)
              /\ DateKey(current_date'[1])[1] = y]_vars

\* an explicit year, then base_year + 1 for March, then back to base_year
\* for July
C15_Witness ==
    /\ idx = 3
    /\ lines = <<HdrSepYear, HdrMar, HdrJul>>
    /\ base_year = 2019
    /\ current_year = Some(2019)

(***************************************************************************)
(* C16: the date-header check comes first: a line that matches the         *)
(* date-header pattern, with a known month or not, appends no record, also *)
(* when it matches the match-result pattern as well.                       *)
(***************************************************************************)
C16_HeaderShapedLineAppendsNothing ==
    [][(InLoop /\ IsHeaderShaped(idx + 1))
          => (matches' = matches /\ idx' = idx + 1 /\ pc' = pc)]_vars

\* a recognized header that is also shaped like a result was consumed while
\* a date was active
C16_Witness ==
    /\ idx = 2
    /\ IsHeader(1)
    /\ lines[2] = HdrAndMatch
    /\ MATCH_PATTERN2(Lex(lines[2])) # None
    /\ current_date = Some(DateOfHeader(2))
    /\ matches = <<>>

(***************************************************************************)
(* Repeated calls of parse_file in one process.  A call that has finished  *)
(* is recorded and the next call starts with the locals of lines 60-68.    *)
(***************************************************************************)
MaxCalls == 3

\* the texts of the calls: every kind of line occurs in one of them
CallTexts == {<<MatchReal, HdrSepYear>>,
              <<HdrMar, MatchReal>>,
              <<OktAndMatch, Blank, MatchReal>>,
              <<HdrJul, MatchLong>>}

\* what a finished call gave back: the list, or the exception
CallRecord ==
    [season |-> season, lines |-> lines, outcome |-> pc,
     result |-> IF pc = "done" THEN matches ELSE <<>>]

InitCalls ==
    /\ season \in Seasons
    /\ lines \in CallTexts
    /\ int_max_str_digits \in IntMaxStrDigitsSettings
    /\ base_year = IntValue(SplitFirst(season))
    /\ idx = 0
    /\ current_date = None
    /\ current_year = None
    /\ matches = <<>>
    /\ origin = <<>>
    /\ pc = "loop"
    /\ CallsIdle
    /\ MainIdle
    /\ FetchIdle

\* variant: current_date lives on between the calls
NextCallKeepsDate ==
    /\ pc \in {"done", "raised"}
    /\ Len(calls) + 1 < MaxCalls
    /\ calls' = Append(calls, CallRecord)
    /\ season' \in Seasons
    /\ lines' \in CallTexts
    /\ base_year' = IntValue(SplitFirst(season'))
    /\ idx' = 0
    /\ current_year' = None
    /\ matches' = <<>>
    /\ origin' = <<>>
    /\ pc' = "loop"
    /\ UNCHANGED <<int_max_str_digits, current_date, mainVars, fetchVars>>

\* lines 58-68: the caller calls parse_file again, with any season and text
NextCall ==
    /\ pc \in {"done", "raised"}
    /\ Len(calls) + 1 < MaxCalls
    /\ calls' = Append(calls, CallRecord)
    /\ season' \in Seasons
    /\ lines' \in CallTexts
    /\ base_year' = IntValue(SplitFirst(season'))
    /\ idx' = 0
    /\ current_date' = None
    /\ current_year' = None
    /\ matches' = <<>>
    /\ origin' = <<>>
    /\ pc' = "loop"
    /\ UNCHANGED <<int_max_str_digits, mainVars, fetchVars>>

NextCalls ==
    \/ DateHeaderLine
    \/ UnknownMonthLine
    \/ MatchLine
    \/ MatchLineRaises
    \/ OtherLine
    \/ Return
    \/ NextCall

SpecCalls == InitCalls /\ [][NextCalls]_vars

(***************************************************************************)
(* C12: two calls with the same season and text give the same result,      *)
(* whatever calls ran before or between them, and every call starts with   *)
(* current_date None, an empty list and the base_year of its own season.   *)
(***************************************************************************)
Finished ==
    IF pc \in {"done", "raised"} THEN Append(calls, CallRecord) ELSE calls

C12_CallsAreIndependent ==
    /\ \A i, j \in 1..Len(Finished) :
          (Finished[i].season = Finished[j].season
           /\ Finished[i].lines = Finished[j].lines)
             => Finished[i] = Finished[j]
    /\ (pc = "loop" /\ idx = 0) =>
          /\ current_date = None
          /\ current_year = None
          /\ matches = <<>>
          /\ base_year = IntValue(SplitFirst(season))

\* the same season and text parsed before and after a call for another
\* season that ended with a date active; the text begins with a match line
C12_Witness ==
    /\ Len(Finished) = 3
    /\ Finished[1].season = Finished[3].season
    /\ Finished[1].lines = <<MatchReal, HdrSepYear>>
    /\ Finished[3].lines = <<MatchReal, HdrSepYear>>
    /\ Finished[2].season # Finished[1].season
    /\ Finished[2].lines = <<HdrMar, MatchReal>>
    /\ Len(Finished[2].result) = 1

(***************************************************************************)
(* main of parse_cl.py: every season of URLS, in sorted order, is          *)
(* downloaded and parsed, the records are collected, sorted by (season,    *)
(* date) and written.                                                      *)
(***************************************************************************)
\* the keys of URLS, in the order of the dict
URLS_KEYS == <<<<"2", "0", "2", "4", "-", "2", "5">>,
               <<"2", "0", "2", "3", "-", "2", "4">>,
               <<"2", "0", "2", "2", "-", "2", "3">>,
               <<"2", "0", "2", "1", "-", "2", "2">>,
               <<"2", "0", "2", "0", "-", "2", "1">>,
               <<"2", "0", "1", "9", "-", "2", "0">>,
               <<"2", "0", "1", "8", "-", "1", "9">>>>

\* ord(c) for the characters of seasons and dates
Ord(c) == IF c = "-" THEN 45 ELSE 48 + DigitVal(c)

\* a < b for two str: the first differing character decides, a proper prefix
\* is smaller
StrLess(a, b) ==
    LET n == IF Len(a) < Len(b) THEN Len(a) ELSE Len(b)
        diff == {i \in 1..n : a[i] # b[i]}
    IN  IF diff = {} THEN Len(a) < Len(b)
        ELSE Ord(a[SetMin(diff)]) < Ord(b[SetMin(diff)])

\* x < y for two tuples of str
RECURSIVE TupleLess(_, _)
TupleLess(x, y) ==
    IF x = <<>> \/ y = <<>> THEN x = <<>> /\ y # <<>>
    ELSE IF Head(x) = Head(y) THEN TupleLess(Tail(x), Tail(y))
    ELSE StrLess(Head(x), Head(y))

\* variant: equal keys come out in reverse order
RankUnstable(keys, i) ==
    1 + Cardinality({j \in 1..Len(keys) :
                        \/ TupleLess(keys[j], keys[i])
                        \/ keys[j] = keys[i] /\ j > i})

\* the place of element i after list.sort()/sorted() by these keys: the sort
\* is stable, equal keys keep their order
Rank(keys, i) ==
    1 + Cardinality({j \in 1..Len(keys) :
                        \/ TupleLess(keys[j], keys[i])
                        \/ keys[j] = keys[i] /\ j < i})

\* SortPerm(keys)[r] is the index of the element that comes out at place r
SortPerm(keys) ==
    [r \in 1..Len(keys) |-> CHOOSE i \in 1..Len(keys) : Rank(keys, i) = r]

\* variant: the key is the date alone
SortKeyDateOnly(m) == <<m.date[1]>>

\* line 130: key=lambda m: (m['season'], m['date'])
SortKey(m) == <<m.season, m.date[1]>>

\* line 118: the seasons of sorted(URLS.items())
SortedSeasons ==
    LET keys == [i \in 1..Len(URLS_KEYS) |-> <<URLS_KEYS[i]>>]
    IN  [r \in 1..Len(URLS_KEYS) |-> URLS_KEYS[SortPerm(keys)[r]]]

\* the texts a download can give: between them every kind of line, dates out
\* of order, equal dates and a score int() may refuse
MainTexts == {<<HdrSepYear, MatchReal, HdrJul, MatchAjax, HdrSepYear, MatchAjax>>,
              <<Blank, HdrMar, MatchReal, OktAndMatch>>,
              <<HdrMar, MatchLong>>}

InitMain ==
    /\ season = <<>>
    /\ lines = <<>>
    /\ int_max_str_digits \in IntMaxStrDigitsSettings
    /\ base_year = 0
    /\ idx = 0
    /\ current_date = None
    /\ current_year = None
    /\ matches = <<>>
    /\ origin = <<>>
    /\ pc = "idle"
    /\ todo = SortedSeasons
    /\ all_matches = <<>>
    /\ all_src = <<>>
    /\ main_pc = "next"
    /\ CallsIdle
    /\ FetchIdle

\* lines 118-125: the next season's text is downloaded and parse_file called
MainCall ==
    /\ main_pc = "next"
    /\ todo # <<>>
    /\ season' = Head(todo)
    /\ lines' \in MainTexts
    /\ base_year' = IntValue(SplitFirst(Head(todo)))
    /\ idx' = 0
    /\ current_date' = None
    /\ current_year' = None
    /\ matches' = <<>>
    /\ origin' = <<>>
    /\ pc' = "loop"
    /\ main_pc' = "parse"
    /\ UNCHANGED <<int_max_str_digits, todo, all_matches, all_src, callVars,
                   fetchVars>>

\* lines 120-122: the download raises and main ends with the exception
MainDownloadFails ==
    /\ main_pc = "next"
    /\ todo # <<>>
    /\ main_pc' = "raised"
    /\ UNCHANGED <<parseVars, todo, all_matches, all_src, callVars, fetchVars>>

\* lines 125-127: parse_file returned and its records are added
MainExtend ==
    /\ main_pc = "parse"
    /\ pc = "done"
    /\ all_matches' = all_matches \o matches
    /\ all_src' = all_src \o [k \in 1..Len(origin) |-> <<season, origin[k]>>]
    /\ todo' = Tail(todo)
    /\ main_pc' = "next"
    /\ pc' = "idle"
    /\ UNCHANGED <<season, lines, int_max_str_digits, base_year, idx,
                   current_date, current_year, matches, origin, callVars,
                   fetchVars>>

\* line 125: parse_file raised and main ends with the exception
MainPropagates ==
    /\ main_pc = "parse"
    /\ pc = "raised"
    /\ main_pc' = "raised"
    /\ UNCHANGED <<parseVars, todo, all_matches, all_src, callVars, fetchVars>>

\* lines 130-138: the list is sorted and written row by row
MainSortAndWrite ==
    /\ main_pc = "next"
    /\ todo = <<>>
    /\ LET keys == [k \in 1..Len(all_matches) |-> SortKey(all_matches[k])]
           perm == SortPerm(keys)
       IN  /\ all_matches' = [r \in 1..Len(all_matches) |-> all_matches[perm[r]]]
           /\ all_src' = [r \in 1..Len(all_src) |-> all_src[perm[r]]]
    /\ main_pc' = "written"
    /\ UNCHANGED <<parseVars, todo, callVars, fetchVars>>

NextMain ==
    \/ MainCall
    \/ MainDownloadFails
    \/ DateHeaderLine
    \/ UnknownMonthLine
    \/ MatchLine
    \/ MatchLineRaises
    \/ OtherLine
    \/ Return
    \/ MainExtend
    \/ MainPropagates
    \/ MainSortAndWrite

SpecMain == InitMain /\ [][NextMain]_vars

(***************************************************************************)
(* C13: what main writes is the collected records sorted ascending by      *)
(* (season, date), the season compared as a str.                           *)
(***************************************************************************)
\* record a comes before record b, or they agree in season and date
InSeasonDateOrder(a, b) ==
    \/ StrLess(a.season, b.season)
    \/ a.season = b.season /\ ~StrLess(b.date[1], a.date[1])

Count(seq, x) == Cardinality({k \in 1..Len(seq) : seq[k] = x})

C13_OutputSortedBySeasonAndDate ==
    [][(main_pc = "next" /\ main_pc' = "written") =>
          /\ \A i, j \in 1..Len(all_matches') :
                i < j => InSeasonDateOrder(all_matches'[i], all_matches'[j])
          /\ Len(all_matches') = Len(all_matches)
          /\ \A k \in 1..Len(all_matches) :
                Count(all_matches', all_matches[k])
                   = Count(all_matches, all_matches[k])]_vars

\* written: records of several seasons, and the sort moved a record of a
\* season whose text has its dates out of order
C13_Witness ==
    /\ main_pc = "written"
    /\ \E i, j \in 1..Len(all_matches) :
          all_matches[i].season # all_matches[j].season
    /\ \E i, j \in 1..Len(all_src) :
          /\ i < j
          /\ all_src[i][1] = all_src[j][1]
          /\ all_src[i][2] > all_src[j][2]

(***************************************************************************)
(* C20: in what main writes, records with the same season and the same     *)
(* date are in the order of their lines in that season's text.             *)
(***************************************************************************)
C20_EqualKeysKeepTextOrder ==
    main_pc = "written" =>
        \A i, j \in 1..Len(all_matches) :
            (/\ i < j
             /\ all_matches[i].season = all_matches[j].season
             /\ all_matches[i].date = all_matches[j].date)
                => all_src[i][2] < all_src[j][2]

\* written: two records of one season and date that differ, with a record
\* of an earlier date between them in the text
C20_Witness ==
    /\ main_pc = "written"
    /\ \E i, j \in 1..Len(all_matches) :
          /\ i < j
          /\ all_matches[i].season = all_matches[j].season
          /\ all_matches[i].date = all_matches[j].date
          /\ all_matches[i] # all_matches[j]
          /\ all_src[j][2] > all_src[i][2] + 1

(***************************************************************************)
(* The fetcher of src/fetch_f1_data.py: fetch_json, called on its own with *)
(* any retries argument, and the loops of fetch_race_results and           *)
(* fetch_qualifying, which call it once per year with the default.  A      *)
(* parsed JSON object is a function from its keys, JSON null is None.      *)
(* The rate-limiting time.sleep(0.5) of the loops keeps no state and is    *)
(* left out; the rows carry the fields below and not the further ones the  *)
(* code copies in the same way.                                            *)
(***************************************************************************)
MaxRetries == 4

MaxYears == 2

\* the default of the retries parameter
DefaultRetries == 4

YearSamples == {2014, 2015, 2016}

RECURSIVE YearLists(_)
YearLists(n) ==
    IF n = 0 THEN {<<>>}
    ELSE YearLists(n - 1) \cup
         {Append(l, y) : l \in {u \in YearLists(n - 1) : Len(u) = n - 1},
                         y \in YearSamples}

JNull == None

JEmptyObject == Some(<<>>)

\* an answer without the expected keys
JError == Some([message |-> "Too Many Requests"])

JResults ==
    Some([MRData |-> [RaceTable |-> [Races |-> <<
        [round |-> <<"1">>, raceName |-> "Australian Grand Prix",
         Circuit |-> [circuitId |-> "albert_park"],
         Results |-> <<
            [Driver |-> [driverId |-> "rosberg"], grid |-> <<"3">>,
             position |-> <<"1">>, positionText |-> "1", laps |-> <<"5", "7">>],
            [Driver |-> [driverId |-> "hamilton"], grid |-> <<"1">>,
             position |-> <<"R">>, positionText |-> "R", laps |-> <<"2">>]>>]
        >>]]])

JQualifying ==
    Some([MRData |-> [RaceTable |-> [Races |-> <<
        [round |-> <<"1">>,
         Circuit |-> [circuitId |-> "albert_park"],
         QualifyingResults |-> <<
            [Driver |-> [driverId |-> "hamilton"],
             Constructor |-> [constructorId |-> "mercedes"],
             position |-> <<"1">>, Q1 |-> "1:31.699"],
            [Driver |-> [driverId |-> "ricciardo"],
             Constructor |-> [constructorId |-> "red_bull"],
             position |-> <<"2">>, Q1 |-> "1:30.775"]>>]
        >>]]])

\* what resp.json() can give for the URL of entry point f
Responses(f) ==
    {JNull, JEmptyObject, JError} \cup
    (IF f = "race" THEN {JResults}
     ELSE IF f = "quali" THEN {JQualifying}
     ELSE {JResults, JQualifying})

RequestErrors == {"RequestException", "ValueError"}

\* `not data`
Falsy(d) == IF d = None THEN TRUE ELSE DOMAIN d[1] = {}

\* lines 35 and 71 raise KeyError
LacksRaces(d) == "MRData" \notin DOMAIN d[1]

\* str.isdigit()
IsDigit(t) == IsDigitStr(t)

\* dict.get(key, default)
Get(obj, key, default) == IF key \in DOMAIN obj THEN obj[key] ELSE default

RECURSIVE Flatten(_)
Flatten(ss) == IF ss = <<>> THEN <<>> ELSE Head(ss) \o Flatten(Tail(ss))

\* lines 36-59: the rows of one year's race results
ResultRows(year, d) ==
    LET races == d[1].MRData.RaceTable.Races
    IN  Flatten([i \in 1..Len(races) |->
            [j \in 1..Len(races[i].Results) |->
                LET r == races[i].Results[j]
                IN  [year |-> year,
                     round |-> IntValue(races[i].round),
                     race_name |-> races[i].raceName,
                     circuit_id |-> races[i].Circuit.circuitId,
                     driver_id |-> r.Driver.driverId,
                     grid |-> IntValue(r.grid),
                     position |-> IF IsDigit(r.position)
                                  THEN Some(IntValue(r.position)) ELSE None,
                     position_text |-> r.positionText,
                     laps |-> IntValue(r.laps)]]])

\* lines 72-85: the rows of one year's qualifying
QualifyingRows(year, d) ==
    LET races == d[1].MRData.RaceTable.Races
    IN  Flatten([i \in 1..Len(races) |->
            [j \in 1..Len(races[i].QualifyingResults) |->
                LET q == races[i].QualifyingResults[j]
                IN  [year |-> year,
                     round |-> IntValue(races[i].round),
                     circuit_id |-> races[i].Circuit.circuitId,
                     driver_id |-> q.Driver.driverId,
                     constructor_id |-> q.Constructor.constructorId,
                     quali_pos |-> IntValue(q.position),
                     q1 |-> Get(q, "Q1", ""),
                     q2 |-> Get(q, "Q2", ""),
                     q3 |-> Get(q, "Q3", "")]]])

Rows(f, year, d) ==
    IF f = "race" THEN ResultRows(year, d) ELSE QualifyingRows(year, d)

\* variant: gives up one attempt early
MayRetryOneLess(a, n) == a < n - 2

\* line 19: another attempt follows this failure
MayRetry(a, n) == a < n - 1

\* variant: the wait starts at one second
BackoffFromOne(a) == 2 ^ a

\* line 20: the wait after failed attempt a
Backoff(a) == 2 ^ (a + 1)

InitFetch ==
    /\ season = <<>>
    /\ lines = <<>>
    /\ int_max_str_digits = 0
    /\ base_year = 0
    /\ idx = 0
    /\ current_date = None
    /\ current_year = None
    /\ matches = <<>>
    /\ origin = <<>>
    /\ pc = "idle"
    /\ CallsIdle
    /\ MainIdle
    /\ fn \in {"json", "race", "quali"}
    /\ years \in IF fn = "json" THEN {<<>>} ELSE YearLists(MaxYears)
    /\ yi = 0
    /\ all_rows = <<>>
    /\ retries \in IF fn = "json" THEN 0..MaxRetries ELSE {0}
    /\ attempt = 0
    /\ sleeps = <<>>
    /\ log = <<>>
    /\ data = None
    /\ year_data = <<>>
    /\ f_pc = IF fn = "json" THEN "request" ELSE "loop"

\* lines 15-17: the request succeeds and its JSON is returned
FetchJsonSucceeds ==
    /\ f_pc = "request"
    /\ attempt < retries
    /\ \E resp \in Responses(fn) :
          /\ data' = resp
          /\ log' = Append(log, [ok |-> TRUE, json |-> resp])
    /\ f_pc' = "returned"
    /\ UNCHANGED <<fn, years, yi, all_rows, retries, attempt, sleeps,
                   year_data, parseVars, callVars, mainVars>>

\* lines 18-25: the request or the decoding fails; the call waits and tries
\* again, or returns None after the last attempt
FetchJsonFails ==
    /\ f_pc = "request"
    /\ attempt < retries
    /\ \E e \in RequestErrors : log' = Append(log, [ok |-> FALSE, exc |-> e])
    /\ IF MayRetry(attempt, retries)
       THEN /\ sleeps' = Append(sleeps, Backoff(attempt))
            /\ attempt' = attempt + 1
            /\ UNCHANGED <<data, f_pc>>
       ELSE /\ data' = None
            /\ f_pc' = "returned"
            /\ UNCHANGED <<sleeps, attempt>>
    /\ UNCHANGED <<fn, years, yi, all_rows, retries, year_data, parseVars,
                   callVars, mainVars>>

\* line 13: range(retries) is exhausted (at once when retries <= 0) and the
\* function ends without a return statement
FetchJsonFallsOff ==
    /\ f_pc = "request"
    /\ ~(attempt < retries)
    /\ data' = None
    /\ f_pc' = "returned"
    /\ UNCHANGED <<fn, years, yi, all_rows, retries, attempt, sleeps, log,
                   year_data, parseVars, callVars, mainVars>>

\* lines 30-32 and 66-68: the next year's URL is fetched
LoopFetch ==
    /\ f_pc = "loop"
    /\ yi < Len(years)
    /\ retries' = DefaultRetries
    /\ attempt' = 0
    /\ sleeps' = <<>>
    /\ log' = <<>>
    /\ f_pc' = "request"
    /\ UNCHANGED <<fn, years, yi, all_rows, data, year_data, parseVars,
                   callVars, mainVars>>

\* variant: a year without data ends the loop
LoopSkipBreaks ==
    /\ f_pc = "returned"
    /\ fn \in {"race", "quali"}
    /\ Falsy(data)
    /\ yi' = yi + 1
    /\ year_data' = Append(year_data, data)
    /\ f_pc' = "done"
    /\ UNCHANGED <<fn, years, all_rows, retries, attempt, sleeps, log, data,
                   parseVars, callVars, mainVars>>

\* lines 33-34 and 69-70: no data for the year, on to the next
LoopSkip ==
    /\ f_pc = "returned"
    /\ fn \in {"race", "quali"}
    /\ Falsy(data)
    /\ yi' = yi + 1
    /\ year_data' = Append(year_data, data)
    /\ f_pc' = "loop"
    /\ UNCHANGED <<fn, years, all_rows, retries, attempt, sleeps, log, data,
                   parseVars, callVars, mainVars>>

\* lines 35-60 and 71-86: the rows of the year are appended
LoopRows ==
    /\ f_pc = "returned"
    /\ fn \in {"race", "quali"}
    /\ ~Falsy(data)
    /\ ~LacksRaces(data)
    /\ all_rows' = all_rows \o Rows(fn, years[yi + 1], data)
    /\ yi' = yi + 1
    /\ year_data' = Append(year_data, data)
    /\ f_pc' = "loop"
    /\ UNCHANGED <<fn, years, retries, attempt, sleeps, log, data, parseVars,
                   callVars, mainVars>>

\* lines 35 and 71: the answer lacks the expected keys and the function ends
\* with KeyError
LoopRaises ==
    /\ f_pc = "returned"
    /\ fn \in {"race", "quali"}
    /\ ~Falsy(data)
    /\ LacksRaces(data)
    /\ f_pc' = "raised"
    /\ UNCHANGED <<fn, years, yi, all_rows, retries, attempt, sleeps, log,
                   data, year_data, parseVars, callVars, mainVars>>

\* lines 61 and 87: the rows are returned
LoopReturn ==
    /\ f_pc = "loop"
    /\ yi = Len(years)
    /\ f_pc' = "done"
    /\ UNCHANGED <<fn, years, yi, all_rows, retries, attempt, sleeps, log,
                   data, year_data, parseVars, callVars, mainVars>>

NextFetch ==
    \/ FetchJsonSucceeds
    \/ FetchJsonFails
    \/ FetchJsonFallsOff
    \/ LoopFetch
    \/ LoopSkip
    \/ LoopRows
    \/ LoopRaises
    \/ LoopReturn

SpecFetch == InitFetch /\ [][NextFetch]_vars

(***************************************************************************)
(* Claims about the fetcher.  log holds one entry per request attempt of   *)
(* the current (or last) fetch_json call, sleeps the waits it made.        *)
(***************************************************************************)
Succeeded == {i \in 1..Len(log) : log[i].ok}

AllAttemptsFailed == Len(log) = retries /\ Succeeded = {}

AtMostRetriesFirstSuccessLast ==
    /\ Len(log) <= retries
    /\ \A i \in Succeeded : i = Len(log)
    /\ f_pc = "request" => Succeeded = {}
    /\ (f_pc = "returned" /\ Succeeded # {}) => data = log[Len(log)].json

\* C17, as stated: fetch_json makes at most retries attempts, returns the
\* JSON of the first successful attempt and makes no attempt after it, and
\* returns None exactly when all retries attempts failed.
C17_NoneExactlyWhenAllFail ==
    /\ AtMostRetriesFirstSuccessLast
    /\ f_pc = "returned" => (data = None <=> AllAttemptsFailed)

\* C17, amended: fetch_json makes at most retries attempts, returns the
\* JSON of the first successful attempt and makes no attempt after it; when
\* no attempt succeeded it returns None after exactly retries failed
\* attempts.  None is also what it returns for a successful attempt whose
\* JSON is null.
C17_AttemptsAndResult ==
    /\ AtMostRetriesFirstSuccessLast
    /\ (f_pc = "returned" /\ Succeeded = {}) =>
           data = None /\ AllAttemptsFailed
    /\ (f_pc = "returned" /\ data = None) =>
           \/ AllAttemptsFailed
           \/ Succeeded # {} /\ log[Len(log)].json = JNull

C17_Witness ==
    /\ fn = "json"
    /\ f_pc = "returned"
    /\ retries = 3
    /\ Len(log) = 2
    /\ ~log[1].ok
    /\ log[2].ok
    /\ data = JResults

\* the failed attempts (counted from 0) that are followed by a wait
WaitedAfter == {k \in 0..(Len(log) - 1) : ~log[k + 1].ok /\ k < retries - 1}

\* C18: after failed attempt k (from 0) with k < retries - 1 fetch_json
\* sleeps 2^(k+1) seconds before attempt k+1; after the last failed attempt
\* it returns None without sleeping.
C18_ExponentialBackoff ==
    /\ Len(sleeps) = Cardinality(WaitedAfter)
    /\ \A k \in WaitedAfter : sleeps[k + 1] = 2 ^ (k + 1)
    /\ f_pc = "request" => attempt = Len(sleeps) /\ attempt = Len(log)
    /\ (f_pc = "returned" /\ AllAttemptsFailed /\ retries > 0) =>
           /\ data = None
           /\ Len(sleeps) = retries - 1

C18_Witness ==
    /\ fn = "json"
    /\ f_pc = "returned"
    /\ retries = 4
    /\ AllAttemptsFailed
    /\ sleeps = <<2, 4, 8>>
    /\ data = None

\* the rows the finished years gave, year after year
RowsOfYears ==
    Flatten([i \in 1..Len(year_data) |->
                IF Falsy(year_data[i]) THEN <<>>
                ELSE Rows(fn, years[i], year_data[i])])

\* C19: in fetch_race_results and fetch_qualifying a year for which
\* fetch_json returned None adds no rows and does not end the loop: when
\* the function returns, every year of the list has been fetched, and the
\* rows are those of the years that gave data, in the order of the list.
C19_NoneYearIsSkipped ==
    /\ Len(year_data) = yi
    /\ all_rows = RowsOfYears
    /\ \A i \in 1..Len(all_rows) :
          \E j \in 1..yi : years[j] = all_rows[i].year /\ year_data[j] # None
    /\ f_pc = "done" => yi = Len(years)
    /\ f_pc = "raised" => data # None

C19_Witness ==
    /\ f_pc = "done"
    /\ Len(years) = 2
    /\ years[1] # years[2]
    /\ year_data[1] = None
    /\ year_data[2] # None
    /\ all_rows # <<>>
    /\ \A i \in 1..Len(all_rows) : all_rows[i].year = years[2]
====
